---- MODULE Spec2Model ----
(***************************************************************************)
(* Model of retro/tables/shift_and_bin.pyx: one call of shift_and_bin,     *)
(* stepped through its argument checks, its loop over DOMs, its loop over  *)
(* the first-octant polar bins and their Cartesian cells, and the          *)
(* per-DOM combination into binned_one_minus_sp.                           *)
(*                                                                         *)
(* Numbers.  Lengths (dom_coords, x_min .. z_max, binwidth, r_max) are     *)
(* integers in a common length unit.  The double-valued quantities         *)
(* (survival_prob, prho, pz, volumes and the seven arrays) are exact       *)
(* rationals <<numerator, denominator>>; the unit vector of lines 307-311  *)
(* is kept exactly as a coefficient of 1/sqrt(s), s square-free, so the    *)
(* x- and y-direction arrays hold one rational per square-free key.        *)
(* Rounding of IEEE doubles is not modelled: every statement below is a    *)
(* statement in exact arithmetic.                                          *)
(***************************************************************************)
EXTENDS Integers, Sequences, FiniteSets, TLC

VARIABLES args,
          binned_spv, binned_px_spv, binned_py_spv, binned_pz_spv,
          binned_one_minus_sp,
          dom_binned_vol, dom_binned_spv,
          pc, dom_idx, dom_os_idx, r_idx, theta_idx, ix

outputs == <<binned_spv, binned_px_spv, binned_py_spv, binned_pz_spv,
             binned_one_minus_sp>>
scratch == <<dom_binned_vol, dom_binned_spv>>
cursor == <<dom_idx, dom_os_idx, r_idx, theta_idx, ix>>
vars == <<args, outputs, scratch, pc, cursor>>

----------------------------------------------------------------------------
(* Bounds of the model.                                                    *)
MaxNr == 2
MaxNtheta == 4
MaxOff == 1

----------------------------------------------------------------------------
(* Exact rational arithmetic for the double-valued quantities.             *)
Abs(n) == IF n < 0 THEN -n ELSE n

RECURSIVE GCD(_, _)
GCD(a, b) == IF b = 0 THEN a ELSE GCD(b, a % b)

Rat(n, d) ==
  LET g == GCD(Abs(n), Abs(d))
      s == IF d < 0 THEN -1 ELSE 1
  IN  <<(s * n) \div g, (s * d) \div g>>

Zero == Rat(0, 1)
One == Rat(1, 1)
RAdd(a, b) == Rat(a[1] * b[2] + b[1] * a[2], a[2] * b[2])
RSub(a, b) == Rat(a[1] * b[2] - b[1] * a[2], a[2] * b[2])
RMul(a, b) == Rat(a[1] * b[1], a[2] * b[2])
RDiv(a, b) == Rat(a[1] * b[2], a[2] * b[1])
RNeg(a) == <<-a[1], a[2]>>

(* C's round(): to the nearest integer, halfway cases away from zero.      *)
Round(n, d) ==
  IF n >= 0 THEN (2 * n + d) \div (2 * d) ELSE -((2 * (-n) + d) \div (2 * d))

(* `//` on C ints under @cython.cdivision(True): the quotient is C's,      *)
(* truncated toward zero, not Python's floor.                              *)
CDiv(a, b) == IF a >= 0 THEN a \div b ELSE -((-a) \div b)

----------------------------------------------------------------------------
(* The unit vector towards the centre of cell (x, y), lines 307-311:       *)
(* (2x+1, 2y+1) / sqrt(N), N = (2x+1)^2 + (2y+1)^2 = s * t^2 with s        *)
(* square-free, kept as the rational (2x+1)/t at key s.                    *)
CellOffsets == 0 .. MaxOff

NormSq(x, y) == (2 * x + 1) * (2 * x + 1) + (2 * y + 1) * (2 * y + 1)

SquareRootPart(n) ==
  CHOOSE t \in 1 .. n :
    /\ n % (t * t) = 0
    /\ \A u \in (t + 1) .. n : n % (u * u) # 0

SquareFreePart(n) == n \div (SquareRootPart(n) * SquareRootPart(n))

SurdKeys == {1} \cup {SquareFreePart(NormSq(x, y)) : x, y \in CellOffsets}

DZero == [s \in SurdKeys |-> Zero]
DRat(q) == [s \in SurdKeys |-> IF s = 1 THEN q ELSE Zero]
DAdd(a, b) == [s \in SurdKeys |-> RAdd(a[s], b[s])]
DScale(a, q) == [s \in SurdKeys |-> RMul(a[s], q)]
DNeg(a) == [s \in SurdKeys |-> RNeg(a[s])]

px_unnormed(x_os_idx, y_os_idx) ==
  LET n == NormSq(x_os_idx, y_os_idx)
  IN  [s \in SurdKeys |->
         IF s = SquareFreePart(n)
         THEN Rat(2 * x_os_idx + 1, SquareRootPart(n)) ELSE Zero]

py_unnormed(x_os_idx, y_os_idx) ==
  LET n == NormSq(x_os_idx, y_os_idx)
  IN  [s \in SurdKeys |->
         IF s = SquareFreePart(n)
         THEN Rat(2 * y_os_idx + 1, SquareRootPart(n)) ELSE Zero]

----------------------------------------------------------------------------
(* The arguments of a call.  An overlap-mapping entry <<x, y, z, vol>> is  *)
(* one row of an ind_array with the matching element of the vol_array; a   *)
(* polar bin is the sequence of its entries, and vol_arrays the sequence   *)
(* of the first-octant polar bins (ind_arrays runs parallel to it).        *)
Entry(x, y, z, vol) == <<x, y, z, vol>>

PolarBin(style, j) ==
  CASE style = "unit" -> <<Entry(0, 0, 0, One)>>
    [] style = "axis" -> <<Entry(MaxOff, 0, 0, Rat(2, 1))>>
    [] OTHER ->
         CASE j % 3 = 0 -> <<Entry(0, MaxOff, 1, One), Entry(0, 0, 0, Rat(2, 1))>>
           [] j % 3 = 1 -> <<Entry(MaxOff, MaxOff, 0, One)>>
           [] OTHER -> <<>>

Mapping(style, len) == [j \in 1 .. len |-> PolarBin(style, j - 1)]

Table(kind, nr, ntheta) ==
  [r \in 0 .. nr - 1 |-> [t \in 0 .. ntheta - 1 |->
     CASE kind = "half" -> [sp |-> Rat(1, 2), prho |-> One, pz |-> Zero]
       [] kind = "zero" -> [sp |-> Zero, prho |-> One, pz |-> Rat(1, 2)]
       [] OTHER -> [sp |-> Rat(1 + r + t, MaxNr + MaxNtheta),
                    prho |-> Rat(t + 1, ntheta),
                    pz |-> Rat(r - t, 4)]]]

Grids ==
  { [x_min |-> 0, x_max |-> 12, y_min |-> 0, y_max |-> 12,
     z_min |-> 0, z_max |-> 12, binwidth |-> 4],
    [x_min |-> -4, x_max |-> 4, y_min |-> 0, y_max |-> 12,
     z_min |-> 4, z_max |-> 8, binwidth |-> 4] }

DomPositions == { <<6, 6, 6>>, <<4, 4, 4>>, <<0, 4, 8>>, <<-5, 6, 6>> }

DomLists ==
  {<<>>} \cup {<<p>> : p \in DomPositions}
         \cup {<<p, q>> : p, q \in DomPositions}

Seed(kind, n) ==
  [binned_spv |->
     [k \in 1 .. n |-> IF kind = "graded" THEN Rat(k % 3, 1) ELSE Zero],
   binned_px_spv |->
     [k \in 1 .. n |-> IF kind = "graded" THEN DRat(Rat(k - 2, 1)) ELSE DZero],
   binned_py_spv |->
     [k \in 1 .. n |-> IF kind = "graded" THEN DRat(Rat(1, k)) ELSE DZero],
   binned_pz_spv |->
     [k \in 1 .. n |-> IF kind = "graded" THEN Rat(-k, 2) ELSE Zero],
   binned_one_minus_sp |->
     [k \in 1 .. n |-> IF kind = "half" THEN One ELSE Rat(k, k + 1)]]

NumCells(g) ==
  ((g.x_max - g.x_min) \div g.binwidth) * ((g.y_max - g.y_min) \div g.binwidth)
    * ((g.z_max - g.z_min) \div g.binwidth)

Arguments(style, kind, g, nr, ntheta, oversample, doms) ==
  LET t == Table(kind, nr, ntheta)
  IN  [vol_arrays |-> Mapping(style, (nr * ntheta) \div 2),
       dom_coords |-> doms,
       survival_prob |-> [r \in 0 .. nr - 1 |-> [u \in 0 .. ntheta - 1 |-> t[r][u].sp]],
       prho |-> [r \in 0 .. nr - 1 |-> [u \in 0 .. ntheta - 1 |-> t[r][u].prho]],
       pz |-> [r \in 0 .. nr - 1 |-> [u \in 0 .. ntheta - 1 |-> t[r][u].pz]],
       nr |-> nr, ntheta |-> ntheta, r_max |-> 5,
       x_min |-> g.x_min, x_max |-> g.x_max, y_min |-> g.y_min,
       y_max |-> g.y_max, z_min |-> g.z_min, z_max |-> g.z_max,
       binwidth |-> g.binwidth, oversample |-> oversample,
       anisotropy |-> "None",
       arrays |-> Seed(kind, NumCells(g))]

Workloads ==
  { <<"unit", "half">>, <<"axis", "half">>, <<"mixed", "zero">>,
    <<"unit", "graded">>, <<"axis", "graded">>, <<"mixed", "graded">> }

AcceptedCalls ==
  { Arguments(w[1], w[2], g, nr, ntheta, oversample, doms) :
      w \in Workloads, g \in Grids, nr \in 1 .. MaxNr, ntheta \in 1 .. MaxNtheta, oversample \in {1, 2},
      doms \in DomLists }

(* Calls that break one precondition each.                                 *)
BaseCall ==
  Arguments("unit", "graded", CHOOSE g \in Grids : g.x_min = 0, 2, 4, 1,
            << <<6, 6, 6>> >>)

Shorter(arr) == SubSeq(arr, 1, Len(arr) - 1)

RejectedCalls ==
  { [BaseCall EXCEPT !.binwidth = 0],
    [BaseCall EXCEPT !.binwidth = -4],
    [BaseCall EXCEPT !.oversample = 0],
    [BaseCall EXCEPT !.anisotropy = "tuple"],
    [BaseCall EXCEPT !.x_max = 10],
    [BaseCall EXCEPT !.y_max = 13],
    [BaseCall EXCEPT !.z_min = 1],
    [BaseCall EXCEPT !.vol_arrays = Mapping("unit", 3)],
    [BaseCall EXCEPT !.vol_arrays = Mapping("unit", 5)],
    [BaseCall EXCEPT !.arrays.binned_spv = Shorter(@)],
    [BaseCall EXCEPT !.arrays.binned_px_spv = Shorter(@)],
    [BaseCall EXCEPT !.arrays.binned_py_spv = Shorter(@)],
    [BaseCall EXCEPT !.arrays.binned_pz_spv = Shorter(@)],
    [BaseCall EXCEPT !.arrays.binned_one_minus_sp = @ \o <<One>>] }

----------------------------------------------------------------------------
(* Lines 199-200 alone: the test of anisotropy left out.                   *)
ArgumentsAcceptedAnyAnisotropy(a) ==
  /\ a.binwidth > 0
  /\ a.oversample >= 1

(* Lines 199-201.                                                          *)
ArgumentsAccepted(a) ==
  /\ a.binwidth > 0
  /\ a.oversample >= 1
  /\ a.anisotropy = "None"

(* Lines 204-213 and 225.                                                  *)
num_first_octant_pol_bins(a) == Len(a.vol_arrays)
nx(a) == Round(a.x_max - a.x_min, a.binwidth)
ny(a) == Round(a.y_max - a.y_min, a.binwidth)
nz(a) == Round(a.z_max - a.z_min, a.binwidth)
ntheta_in_quad(a) == (a.ntheta + 1) \div 2

(* Lines 246-259; abs(d) < 1e-6 is abs(d) * 10^6 < 1.                      *)
InverseTolerance == 1000000

BinningAccepted(a) ==
  /\ Abs(a.x_min + nx(a) * a.binwidth - a.x_max) * InverseTolerance < 1
  /\ Abs(a.y_min + ny(a) * a.binwidth - a.y_max) * InverseTolerance < 1
  /\ Abs(a.z_min + nz(a) * a.binwidth - a.z_max) * InverseTolerance < 1
  /\ num_first_octant_pol_bins(a) = CDiv(a.nr * a.ntheta, 2)
  /\ \A name \in DOMAIN a.arrays : Len(a.arrays[name]) = nx(a) * ny(a) * nz(a)

(* Lines 279-284.                                                          *)
Circumvented(a, dom) ==
  \/ dom[1] + a.r_max <= a.x_min \/ dom[1] - a.r_max >= a.x_max
  \/ dom[2] + a.r_max <= a.y_min \/ dom[2] - a.r_max >= a.y_max
  \/ dom[3] + a.r_max <= a.z_min \/ dom[3] - a.r_max >= a.z_max

(* Lines 286-288: (dom - min) * inv_os_bw with inv_os_bw = oversample /    *)
(* binwidth, rounded.                                                      *)
DomOsIdx(a, dom) ==
  << Round((dom[1] - a.x_min) * a.oversample, a.binwidth),
     Round((dom[2] - a.y_min) * a.oversample, a.binwidth),
     Round((dom[3] - a.z_min) * a.oversample, a.binwidth) >>

(* Lines 313-319: the two hemispheres.                                     *)
z_idx(hemisphere, z_os, dom_z_os, oversample) ==
  IF hemisphere = 0
  THEN CDiv(z_os + dom_z_os, oversample)
  ELSE CDiv(-1 - z_os + dom_z_os, oversample)

theta_idx_(hemisphere, t, ntheta) ==
  IF hemisphere = 0 THEN t ELSE ntheta - 1 - t

(* Lines 333-359: the four quadrants.                                      *)
x_idx(quadrant, x_os, y_os, dom_x_os, oversample) ==
  CASE quadrant = 0 -> CDiv(x_os + dom_x_os, oversample)
    [] quadrant = 1 -> CDiv(-1 - y_os + dom_x_os, oversample)
    [] quadrant = 2 -> CDiv(-1 - x_os + dom_x_os, oversample)
    [] quadrant = 3 -> CDiv(y_os + dom_x_os, oversample)

y_idx(quadrant, x_os, y_os, dom_y_os, oversample) ==
  CASE quadrant = 0 -> CDiv(y_os + dom_y_os, oversample)
    [] quadrant = 1 -> CDiv(x_os + dom_y_os, oversample)
    [] quadrant = 2 -> CDiv(-1 - y_os + dom_y_os, oversample)
    [] quadrant = 3 -> CDiv(-1 - x_os + dom_y_os, oversample)

(* Lines 333-359 with the sign of px_ in quadrant 3 reversed.              *)
px_Quadrant3Negated(quadrant, px_firstquad, py_firstquad) ==
  CASE quadrant = 0 -> px_firstquad
    [] quadrant = 1 -> DNeg(py_firstquad)
    [] quadrant = 2 -> DNeg(px_firstquad)
    [] quadrant = 3 -> DNeg(py_firstquad)

(* Lines 333-359: px_ and py_ of the four quadrants.                       *)
px_(quadrant, px_firstquad, py_firstquad) ==
  CASE quadrant = 0 -> px_firstquad
    [] quadrant = 1 -> DNeg(py_firstquad)
    [] quadrant = 2 -> DNeg(px_firstquad)
    [] quadrant = 3 -> py_firstquad

py_(quadrant, px_firstquad, py_firstquad) ==
  CASE quadrant = 0 -> py_firstquad
    [] quadrant = 1 -> px_firstquad
    [] quadrant = 2 -> DNeg(py_firstquad)
    [] quadrant = 3 -> DNeg(px_firstquad)

(* Line 365; the arrays are the sequences 1 .. nx*ny*nz, cell k at k + 1.  *)
flat_cart_ix(a, x, y, z) == (x * ny(a) * nz(a)) + (y * nz(a)) + z

(* The seven arrays the loops write, as one record.                        *)
Arrays(o, v, s) ==
  [binned_spv |-> o[1], binned_px_spv |-> o[2], binned_py_spv |-> o[3],
   binned_pz_spv |-> o[4], binned_one_minus_sp |-> o[5],
   dom_binned_vol |-> v, dom_binned_spv |-> s]

(* Line 326 without the survival probability.                              *)
spvVolumeOnly(a, r, t, vol) == vol

(* Lines 324-326: spv = sp * vol.                                          *)
spv(a, r, t, vol) == RMul(a.survival_prob[r][t], vol)

(* Lines 324-331 and 361-371: one quadrant of one hemisphere.              *)
Quadrant(st, a, dos, r, t, e, hemisphere, quadrant) ==
  LET t_ == theta_idx_(hemisphere, t, a.ntheta)
      w == spv(a, r, t_, e[4])
      px_firstquad == DScale(px_unnormed(e[1], e[2]), a.prho[r][t_])
      py_firstquad == DScale(py_unnormed(e[1], e[2]), a.prho[r][t_])
      x == x_idx(quadrant, e[1], e[2], dos[1], a.oversample)
      y == y_idx(quadrant, e[1], e[2], dos[2], a.oversample)
      z == z_idx(hemisphere, e[3], dos[3], a.oversample)
      k == flat_cart_ix(a, x, y, z) + 1
  IN  IF x < 0 \/ x >= nx(a) \/ y < 0 \/ y >= ny(a)
      THEN st
      ELSE [st EXCEPT
              !.dom_binned_vol[k] = RAdd(@, e[4]),
              !.dom_binned_spv[k] = RAdd(@, w),
              !.binned_spv[k] = RAdd(@, w),
              !.binned_px_spv[k] =
                 DAdd(@, DScale(px_(quadrant, px_firstquad, py_firstquad), w)),
              !.binned_py_spv[k] =
                 DAdd(@, DScale(py_(quadrant, px_firstquad, py_firstquad), w)),
              !.binned_pz_spv[k] = RAdd(@, RMul(a.pz[r][t_], w))]

(* Lines 313-371: for hemisphere in range(2), for quadrant in range(4).    *)
Hemisphere(st, a, dos, r, t, e, hemisphere) ==
  LET z == z_idx(hemisphere, e[3], dos[3], a.oversample)
      Q(s, quadrant) == Quadrant(s, a, dos, r, t, e, hemisphere, quadrant)
  IN  IF z < 0 \/ z >= nz(a) THEN st ELSE Q(Q(Q(Q(st, 0), 1), 2), 3)

(* Lines 313-371 with hemisphere 0 only.                                   *)
CartBinUpperOnly(st, a, dos, r, t, e) == Hemisphere(st, a, dos, r, t, e, 0)

(* Lines 298-371: both hemispheres of one Cartesian bin.                   *)
CartBin(st, a, dos, r, t, e) ==
  Hemisphere(Hemisphere(st, a, dos, r, t, e, 0), a, dos, r, t, e, 1)

(* Lines 290-291 left out: the scratch arrays keep what they held.         *)
ScratchKept(st, n) == st

(* Line 290 alone: dom_binned_spv keeps what it held.                      *)
ScratchSpvKept(st, n) ==
  [st EXCEPT !.dom_binned_vol = [k \in 1 .. n |-> Zero]]

(* Lines 290-291.                                                          *)
ScratchZeroed(st, n) ==
  [st EXCEPT !.dom_binned_vol = [k \in 1 .. n |-> Zero],
             !.dom_binned_spv = [k \in 1 .. n |-> Zero]]

(* Line 384 assigning the factor instead of multiplying by it.             *)
CombinedAssigned(st) ==
  [st EXCEPT !.binned_one_minus_sp =
     [k \in 1 .. Len(@) |->
        IF st.dom_binned_vol[k] = Zero
        THEN @[k]
        ELSE RSub(One, RDiv(st.dom_binned_spv[k], st.dom_binned_vol[k]))]]

(* Line 384 without the division by bv.                                    *)
CombinedUnnormalized(st) ==
  [st EXCEPT !.binned_one_minus_sp =
     [k \in 1 .. Len(@) |->
        IF st.dom_binned_vol[k] = Zero
        THEN @[k]
        ELSE RMul(@[k], RSub(One, st.dom_binned_spv[k]))]]

(* Lines 380-384.                                                          *)
Combined(st) ==
  [st EXCEPT !.binned_one_minus_sp =
     [k \in 1 .. Len(@) |->
        IF st.dom_binned_vol[k] = Zero
        THEN @[k]
        ELSE RMul(@[k], RSub(One, RDiv(st.dom_binned_spv[k],
                                      st.dom_binned_vol[k])))]]

----------------------------------------------------------------------------
(* The call, step by step.                                                 *)
Init ==
  /\ args \in AcceptedCalls \cup RejectedCalls
  /\ binned_spv = args.arrays.binned_spv
  /\ binned_px_spv = args.arrays.binned_px_spv
  /\ binned_py_spv = args.arrays.binned_py_spv
  /\ binned_pz_spv = args.arrays.binned_pz_spv
  /\ binned_one_minus_sp = args.arrays.binned_one_minus_sp
  /\ dom_binned_vol = <<>>
  /\ dom_binned_spv = <<>>
  /\ pc = "call"
  /\ dom_idx = 0
  /\ dom_os_idx = <<0, 0, 0>>
  /\ r_idx = 0
  /\ theta_idx = 0
  /\ ix = 0

Current == Arrays(outputs, dom_binned_vol, dom_binned_spv)

Store(st) ==
  /\ binned_spv' = st.binned_spv
  /\ binned_px_spv' = st.binned_px_spv
  /\ binned_py_spv' = st.binned_py_spv
  /\ binned_pz_spv' = st.binned_pz_spv
  /\ binned_one_minus_sp' = st.binned_one_minus_sp
  /\ dom_binned_vol' = st.dom_binned_vol
  /\ dom_binned_spv' = st.dom_binned_spv

(* np.empty leaves the scratch arrays with whatever the memory held.       *)
Uninitialized == {Zero, Rat(7, 1)}

(* Lines 199-244: the three argument asserts, then the declarations.       *)
CheckArguments ==
  /\ pc = "call"
  /\ IF ArgumentsAccepted(args)
     THEN /\ pc' = "try"
          /\ \E g \in Uninitialized :
               /\ dom_binned_vol' = [k \in 1 .. nx(args) * ny(args) * nz(args) |-> g]
               /\ dom_binned_spv' = [k \in 1 .. nx(args) * ny(args) * nz(args) |-> g]
     ELSE /\ pc' = "error"
          /\ UNCHANGED scratch
  /\ UNCHANGED <<args, outputs, cursor>>

(* Lines 246-266: the asserts inside the try block.                        *)
CheckBinning ==
  /\ pc = "try"
  /\ pc' = IF BinningAccepted(args) THEN "dom" ELSE "error"
  /\ dom_idx' = 0
  /\ UNCHANGED <<args, outputs, scratch, dom_os_idx, r_idx, theta_idx, ix>>

(* Lines 268 and 385-387: the loop over DOMs has run out.                  *)
Return ==
  /\ pc = "dom"
  /\ dom_idx = Len(args.dom_coords)
  /\ pc' = "done"
  /\ UNCHANGED <<args, outputs, scratch, cursor>>

(* Lines 279-284: the DOM is circumvented.                                 *)
SkipDom ==
  /\ pc = "dom"
  /\ dom_idx < Len(args.dom_coords)
  /\ Circumvented(args, args.dom_coords[dom_idx + 1])
  /\ dom_idx' = dom_idx + 1
  /\ UNCHANGED <<args, outputs, scratch, pc, dom_os_idx, r_idx, theta_idx, ix>>

(* Lines 286-294: the DOM's lattice position, the scratch arrays zeroed,   *)
(* the first polar bin.                                                    *)
BeginDom ==
  /\ pc = "dom"
  /\ dom_idx < Len(args.dom_coords)
  /\ ~Circumvented(args, args.dom_coords[dom_idx + 1])
  /\ dom_os_idx' = DomOsIdx(args, args.dom_coords[dom_idx + 1])
  /\ Store(ScratchZeroed(Current, nx(args) * ny(args) * nz(args)))
  /\ r_idx' = 0
  /\ theta_idx' = 0
  /\ pc' = "bin"
  /\ UNCHANGED <<args, dom_idx, ix>>

(* Line 295.                                                               *)
flat_pol_idx(a, r, t) == t + r * ntheta_in_quad(a)

(* Lines 293-294: the next (r_idx, theta_idx), or the end of both loops.   *)
NextPolarBin ==
  IF theta_idx + 1 < ntheta_in_quad(args)
  THEN /\ theta_idx' = theta_idx + 1
       /\ UNCHANGED r_idx
       /\ pc' = "bin"
  ELSE IF r_idx + 1 < args.nr
       THEN /\ r_idx' = r_idx + 1
            /\ theta_idx' = 0
            /\ pc' = "bin"
       ELSE /\ pc' = "combine"
            /\ UNCHANGED <<r_idx, theta_idx>>

(* Line 297: the number of Cartesian bins of the polar bin is read.        *)
EnterBin ==
  /\ pc = "bin"
  /\ flat_pol_idx(args, r_idx, theta_idx) < num_first_octant_pol_bins(args)
  /\ ix' = 0
  /\ IF Len(args.vol_arrays[flat_pol_idx(args, r_idx, theta_idx) + 1]) = 0
     THEN NextPolarBin
     ELSE pc' = "entry" /\ UNCHANGED <<r_idx, theta_idx>>
  /\ UNCHANGED <<args, outputs, scratch, dom_idx, dom_os_idx>>

(* Line 297 with flat_pol_idx past the end of num_cart_bins_in_pol_bin     *)
(* (bounds checks are off): the read is undefined.  Either the value read  *)
(* is not positive and the polar bin is passed over, or the process dies:  *)
(* at once, or, the value read being positive, at lines 298-303, where     *)
(* vol_array_ptrs[flat_pol_idx] and ind_array_ptrs[flat_pol_idx] are       *)
(* themselves read past the end of their malloc'ed tables and followed.    *)
ReadPastEnd ==
  /\ pc = "bin"
  /\ flat_pol_idx(args, r_idx, theta_idx) >= num_first_octant_pol_bins(args)
  /\ \/ pc' = "crash" /\ UNCHANGED <<r_idx, theta_idx>>
     \/ NextPolarBin
  /\ UNCHANGED <<args, outputs, scratch, dom_idx, dom_os_idx, ix>>

(* Lines 297-371: one Cartesian bin of the polar bin, all its images.      *)
AccumEntry ==
  /\ pc = "entry"
  /\ LET bin == args.vol_arrays[flat_pol_idx(args, r_idx, theta_idx) + 1]
     IN  /\ Store(CartBin(Current, args, dom_os_idx, r_idx, theta_idx, bin[ix + 1]))
         /\ ix' = ix + 1
         /\ IF ix + 1 < Len(bin)
            THEN UNCHANGED <<pc, r_idx, theta_idx>>
            ELSE NextPolarBin
  /\ UNCHANGED <<args, dom_idx, dom_os_idx>>

(* Lines 380-384, and on to the next DOM.                                  *)
CombineDom ==
  /\ pc = "combine"
  /\ Store(Combined(Current))
  /\ dom_idx' = dom_idx + 1
  /\ pc' = "dom"
  /\ UNCHANGED <<args, dom_os_idx, r_idx, theta_idx, ix>>

CurrentBin == args.vol_arrays[flat_pol_idx(args, r_idx, theta_idx) + 1]

Next ==
  \/ CheckArguments
  \/ CheckBinning
  \/ Return
  \/ SkipDom
  \/ BeginDom
  \/ EnterBin
  \/ ReadPastEnd
  \/ AccumEntry
  \/ CombineDom

Spec == Init /\ [][Next]_vars

----------------------------------------------------------------------------
(* The same loops as functions of the arrays: lines 297-371 for one polar  *)
(* bin, lines 293-371 for all of them, lines 286-384 for one DOM, lines    *)
(* 268-384 for the list of DOMs.                                           *)
RECURSIVE PolarBinDone(_, _, _, _, _, _, _)
PolarBinDone(st, a, dos, r, t, bin, i) ==
  IF i > Len(bin)
  THEN st
  ELSE PolarBinDone(CartBin(st, a, dos, r, t, bin[i]), a, dos, r, t, bin, i + 1)

RECURSIVE PolarBinsDone(_, _, _, _)
PolarBinsDone(st, a, dos, j) ==
  IF j >= a.nr * ntheta_in_quad(a)
  THEN st
  ELSE PolarBinsDone(
         IF j < num_first_octant_pol_bins(a)
         THEN PolarBinDone(st, a, dos, j \div ntheta_in_quad(a),
                           j % ntheta_in_quad(a), a.vol_arrays[j + 1], 1)
         ELSE st,
         a, dos, j + 1)

DomAccumulated(st, a, dom) ==
  Combined(PolarBinsDone(ScratchZeroed(st, nx(a) * ny(a) * nz(a)), a,
                         DomOsIdx(a, dom), 0))

RECURSIVE DomsDone(_, _, _, _)
DomsDone(st, a, doms, i) ==
  IF i > Len(doms)
  THEN st
  ELSE DomsDone(IF Circumvented(a, doms[i]) THEN st
                ELSE DomAccumulated(st, a, doms[i]),
                a, doms, i + 1)

----------------------------------------------------------------------------
(* C1.  If any configuration check fails (binwidth <= 0, oversample < 1,   *)
(* anisotropy given, grid bounds no integral multiple of binwidth, the     *)
(* number of mapping entries not nr*ntheta/2, an output array whose length *)
(* is not nx*ny*nz), the call never gets past its checks and the five      *)
(* output arrays hold the values they had at entry.                        *)
C1_CheckFails(a) ==
  \/ a.binwidth <= 0
  \/ a.oversample < 1
  \/ a.anisotropy # "None"
  \/ (a.x_max - a.x_min) % a.binwidth # 0
  \/ (a.y_max - a.y_min) % a.binwidth # 0
  \/ (a.z_max - a.z_min) % a.binwidth # 0
  \/ 2 * Len(a.vol_arrays) \notin {a.nr * a.ntheta, a.nr * a.ntheta - 1}
  \/ \E name \in {"binned_spv", "binned_px_spv", "binned_py_spv",
                  "binned_pz_spv", "binned_one_minus_sp"} :
       Len(a.arrays[name]) # NumCells(a)

OutputsAsAtEntry ==
  /\ binned_spv = args.arrays.binned_spv
  /\ binned_px_spv = args.arrays.binned_px_spv
  /\ binned_py_spv = args.arrays.binned_py_spv
  /\ binned_pz_spv = args.arrays.binned_pz_spv
  /\ binned_one_minus_sp = args.arrays.binned_one_minus_sp

C1_FailFast ==
  C1_CheckFails(args) => pc \in {"call", "try", "error"} /\ OutputsAsAtEntry

C1_Witness ==
  /\ pc = "error"
  /\ ArgumentsAccepted(args)
  /\ Len(args.arrays.binned_one_minus_sp) # NumCells(args)

----------------------------------------------------------------------------
(* C2.  For every processed DOM and every cell k: when the DOM's local     *)
(* overlap volume at k is not zero, binned_one_minus_sp[k] is multiplied   *)
(* once by 1 - local_spv[k] / local_volume[k], the local sums holding that *)
(* DOM's contributions only; otherwise the cell is left alone.  So after   *)
(* the call binned_one_minus_sp[k] is its value at entry times the product *)
(* of the factors of the DOMs that touched cell k.                         *)
C2_Images(a, dom) ==
  LET dos == DomOsIdx(a, dom)
      all == { <<j, i, h, q>> \in (1 .. Len(a.vol_arrays)) \X (1 .. 2) \X (0 .. 1) \X (0 .. 3) :
                 i <= Len(a.vol_arrays[j]) }
      X(m) == x_idx(m[4], a.vol_arrays[m[1]][m[2]][1], a.vol_arrays[m[1]][m[2]][2],
                    dos[1], a.oversample)
      Y(m) == y_idx(m[4], a.vol_arrays[m[1]][m[2]][1], a.vol_arrays[m[1]][m[2]][2],
                    dos[2], a.oversample)
      Z(m) == z_idx(m[3], a.vol_arrays[m[1]][m[2]][3], dos[3], a.oversample)
      R(m) == (m[1] - 1) \div ntheta_in_quad(a)
      T(m) == IF m[3] = 0 THEN (m[1] - 1) % ntheta_in_quad(a)
              ELSE a.ntheta - 1 - ((m[1] - 1) % ntheta_in_quad(a))
  IN  { [id |-> m,
         k |-> X(m) * ny(a) * nz(a) + Y(m) * nz(a) + Z(m) + 1,
         vol |-> a.vol_arrays[m[1]][m[2]][4],
         spv |-> RMul(a.survival_prob[R(m)][T(m)], a.vol_arrays[m[1]][m[2]][4])] :
        m \in { n \in all : /\ X(n) >= 0 /\ X(n) < nx(a)
                            /\ Y(n) >= 0 /\ Y(n) < ny(a)
                            /\ Z(n) >= 0 /\ Z(n) < nz(a) } }

RECURSIVE C2_SumVol(_)
C2_SumVol(S) ==
  IF S = {} THEN Zero
  ELSE LET m == CHOOSE m \in S : TRUE IN RAdd(m.vol, C2_SumVol(S \ {m}))

RECURSIVE C2_SumSpv(_)
C2_SumSpv(S) ==
  IF S = {} THEN Zero
  ELSE LET m == CHOOSE m \in S : TRUE IN RAdd(m.spv, C2_SumSpv(S \ {m}))

C2_LocalVolume(a, dom) ==
  LET images == C2_Images(a, dom)
  IN  [k \in 1 .. nx(a) * ny(a) * nz(a) |-> C2_SumVol({m \in images : m.k = k})]

C2_LocalSpv(a, dom) ==
  LET images == C2_Images(a, dom)
  IN  [k \in 1 .. nx(a) * ny(a) * nz(a) |-> C2_SumSpv({m \in images : m.k = k})]

C2_Factor(a, dom) ==
  LET vol == C2_LocalVolume(a, dom)
      sum == C2_LocalSpv(a, dom)
  IN  [k \in 1 .. nx(a) * ny(a) * nz(a) |->
         IF Circumvented(a, dom) \/ vol[k] = Zero THEN One
         ELSE RSub(One, RDiv(sum[k], vol[k]))]

RECURSIVE C2_Product(_, _)
C2_Product(a, i) ==
  IF i = 0 THEN a.arrays.binned_one_minus_sp
  ELSE LET before == C2_Product(a, i - 1)
           factor == C2_Factor(a, a.dom_coords[i])
       IN  [k \in 1 .. Len(before) |-> RMul(before[k], factor[k])]

C2_NormalizedProduct ==
  /\ pc = "combine" =>
       /\ dom_binned_vol = C2_LocalVolume(args, args.dom_coords[dom_idx + 1])
       /\ dom_binned_spv = C2_LocalSpv(args, args.dom_coords[dom_idx + 1])
  /\ pc \in {"dom", "done"} => binned_one_minus_sp = C2_Product(args, dom_idx)

C2_Witness ==
  /\ pc = "done"
  /\ Len(args.dom_coords) = 2
  /\ LET first == C2_Factor(args, args.dom_coords[1])
         second == C2_Factor(args, args.dom_coords[2])
     IN  /\ \E k \in 1 .. Len(binned_one_minus_sp) :
              /\ first[k] \notin {Zero, One}
              /\ second[k] \notin {Zero, One}
              /\ first[k] # second[k]
         /\ \E k \in 1 .. Len(binned_one_minus_sp) : first[k] = One /\ second[k] # One

----------------------------------------------------------------------------
(* C3.  The bounding-box shortcut never changes results: for a DOM the     *)
(* test of lines 279-284 circumvents, with a mapping whose cells all       *)
(* intersect the sphere of radius r_max, the full accumulation and         *)
(* combination of that DOM leaves the five output arrays as they are.      *)
C3_WithinSphere(a) ==
  \A j \in 1 .. Len(a.vol_arrays) : \A i \in 1 .. Len(a.vol_arrays[j]) :
    LET e == a.vol_arrays[j][i]
    IN  (e[1] * e[1] + e[2] * e[2] + e[3] * e[3]) * a.binwidth * a.binwidth
          < a.r_max * a.r_max * a.oversample * a.oversample

C3_SkipChangesNothing ==
  ( /\ pc = "dom"
    /\ dom_idx < Len(args.dom_coords)
    /\ Circumvented(args, args.dom_coords[dom_idx + 1])
    /\ C3_WithinSphere(args) )
  => LET st == DomAccumulated(Current, args, args.dom_coords[dom_idx + 1])
     IN  /\ st.binned_spv = binned_spv
         /\ st.binned_px_spv = binned_px_spv
         /\ st.binned_py_spv = binned_py_spv
         /\ st.binned_pz_spv = binned_pz_spv
         /\ st.binned_one_minus_sp = binned_one_minus_sp

----------------------------------------------------------------------------
(* C4.  For two DOM positions a and b and the same table, mapping and      *)
(* arrays at entry, the call on [a, b] and the call on [b, a] end with the *)
(* same binned_one_minus_sp.                                               *)
C4_AtEntry(a) ==
  Arrays(<<a.arrays.binned_spv, a.arrays.binned_px_spv, a.arrays.binned_py_spv,
           a.arrays.binned_pz_spv, a.arrays.binned_one_minus_sp>>,
         [k \in 1 .. nx(a) * ny(a) * nz(a) |-> Rat(7, 1)],
         [k \in 1 .. nx(a) * ny(a) * nz(a) |-> Rat(7, 1)])

----------------------------------------------------------------------------
(* C5.  For one DOM and one mapping entry of volume v whose 8 images all   *)
(* fall in the grid, the volume added to dom_binned_vol, summed over the   *)
(* cells, is 8 * v.                                                        *)
C5_AllInGrid(a, dos, e) ==
  \A hemisphere \in 0 .. 1, quadrant \in 0 .. 3 :
    /\ x_idx(quadrant, e[1], e[2], dos[1], a.oversample) \in 0 .. nx(a) - 1
    /\ y_idx(quadrant, e[1], e[2], dos[2], a.oversample) \in 0 .. ny(a) - 1
    /\ z_idx(hemisphere, e[3], dos[3], a.oversample) \in 0 .. nz(a) - 1

RECURSIVE C5_Added(_, _, _, _)
C5_Added(after, before, lo, hi) ==
  IF lo > hi THEN Zero
  ELSE IF lo = hi THEN RSub(after[lo], before[lo])
  ELSE LET mid == (lo + hi) \div 2
       IN  RAdd(C5_Added(after, before, lo, mid),
                C5_Added(after, before, mid + 1, hi))

C5_VolumeConserved ==
  [][ (pc = "entry" /\ C5_AllInGrid(args, dom_os_idx, CurrentBin[ix + 1]))
      => C5_Added(dom_binned_vol', dom_binned_vol, 1, Len(dom_binned_vol))
           = RMul(Rat(8, 1), CurrentBin[ix + 1][4]) ]_vars

C5_Witness ==
  /\ pc = "entry"
  /\ ix >= 1
  /\ C5_AllInGrid(args, dom_os_idx, CurrentBin[ix])
  /\ \E k \in 1 .. Len(dom_binned_vol) :
       dom_binned_vol[k] = RMul(Rat(2, 1), CurrentBin[ix][4])

----------------------------------------------------------------------------
(* C6.  End to end: nr = 2, ntheta = 4, each of the 4 first-octant bins    *)
(* mapped to the one cell (0,0,0) with volume 1, oversample 1, one DOM in  *)
(* the grid's centre cell, survival_prob 1/2, prho 1, pz 0, binned_spv 0   *)
(* and binned_one_minus_sp 1 at entry.                                     *)
C6_Centre(a) ==
  <<nx(a) \div 2, ny(a) \div 2, nz(a) \div 2>>

C6_InCentreCell(a, dom) ==
  /\ (dom[1] - a.x_min) \div a.binwidth = C6_Centre(a)[1]
  /\ (dom[2] - a.y_min) \div a.binwidth = C6_Centre(a)[2]
  /\ (dom[3] - a.z_min) \div a.binwidth = C6_Centre(a)[3]

C6_Scenario ==
  /\ pc = "done"
  /\ args.nr = 2 /\ args.ntheta = 4 /\ args.oversample = 1
  /\ Len(args.vol_arrays) = 4
  /\ \A j \in 1 .. 4 : args.vol_arrays[j] = <<Entry(0, 0, 0, One)>>
  /\ Len(args.dom_coords) = 1
  /\ C6_InCentreCell(args, args.dom_coords[1])
  /\ \A r \in 0 .. 1, t \in 0 .. 3 :
       /\ args.survival_prob[r][t] = Rat(1, 2)
       /\ args.prho[r][t] = One
       /\ args.pz[r][t] = Zero
  /\ \A k \in 1 .. Len(args.arrays.binned_spv) :
       /\ args.arrays.binned_spv[k] = Zero
       /\ args.arrays.binned_one_minus_sp[k] = One

C6_CentreIx == flat_cart_ix(args, C6_Centre(args)[1], C6_Centre(args)[2],
                            C6_Centre(args)[3]) + 1

C6_CellsReached ==
  Cardinality({m.k : m \in {n \in C2_Images(args, args.dom_coords[1]) : n.id[1] = 1}})

(* As claimed: 0.5 times the number of distinct cells the 8 branches reach. *)
C6_SpvPerCellReached ==
  C6_Scenario =>
    /\ binned_spv[C6_CentreIx] = RMul(Rat(1, 2), Rat(C6_CellsReached, 1))
    /\ binned_one_minus_sp[C6_CentreIx] = Rat(1, 2)

(* As amended: 0.5 times the number of first-octant polar bins.            *)
C6_SpvPerPolarBin ==
  C6_Scenario =>
    /\ binned_spv[C6_CentreIx] = RMul(Rat(1, 2), Rat(Len(args.vol_arrays), 1))
    /\ binned_one_minus_sp[C6_CentreIx] = Rat(1, 2)

C6_Witness == C6_Scenario /\ C6_CellsReached = 8

----------------------------------------------------------------------------
(* C7.  With survival_prob 0 everywhere and the four sums zero at entry,   *)
(* the four sums stay zero in every cell and binned_one_minus_sp stays as  *)
(* it was at entry.                                                        *)
C7_Dark(a) ==
  /\ \A r \in 0 .. a.nr - 1, t \in 0 .. a.ntheta - 1 : a.survival_prob[r][t] = Zero
  /\ \A k \in 1 .. Len(a.arrays.binned_spv) :
       /\ a.arrays.binned_spv[k] = Zero
       /\ a.arrays.binned_px_spv[k] = DZero
       /\ a.arrays.binned_py_spv[k] = DZero
       /\ a.arrays.binned_pz_spv[k] = Zero

C7_ZeroStaysZero ==
  C7_Dark(args) =>
    /\ \A k \in 1 .. Len(binned_spv) :
         /\ binned_spv[k] = Zero
         /\ binned_px_spv[k] = DZero
         /\ binned_py_spv[k] = DZero
         /\ binned_pz_spv[k] = Zero
    /\ binned_one_minus_sp = args.arrays.binned_one_minus_sp

C7_Witness ==
  /\ pc = "done"
  /\ C7_Dark(args)
  /\ \E k \in 1 .. Len(dom_binned_vol) :
       dom_binned_vol[k] # Zero /\ binned_one_minus_sp[k] # One

----------------------------------------------------------------------------
(* C8.  For every symmetry branch and every axis the final grid index is   *)
(* the floor of (branch-transformed offset + DOM lattice index) divided by *)
(* oversample, also when the sum is negative, so that an image with a      *)
(* negative oversampled index gets a negative final index and is dropped.  *)
FloorDiv(n, d) == IF n >= 0 THEN n \div d ELSE -((-n + d - 1) \div d)

C8_OsImage(e, hemisphere, quadrant) ==
  << CASE quadrant = 0 -> e[1] + dom_os_idx[1]
       [] quadrant = 1 -> -1 - e[2] + dom_os_idx[1]
       [] quadrant = 2 -> -1 - e[1] + dom_os_idx[1]
       [] quadrant = 3 -> e[2] + dom_os_idx[1],
     CASE quadrant = 0 -> e[2] + dom_os_idx[2]
       [] quadrant = 1 -> e[1] + dom_os_idx[2]
       [] quadrant = 2 -> -1 - e[2] + dom_os_idx[2]
       [] quadrant = 3 -> -1 - e[1] + dom_os_idx[2],
     IF hemisphere = 0 THEN e[3] + dom_os_idx[3] ELSE -1 - e[3] + dom_os_idx[3] >>

C8_FloorIndex ==
  pc = "entry" =>
    \A hemisphere \in 0 .. 1, quadrant \in 0 .. 3 :
      LET e == CurrentBin[ix + 1]
          os == C8_OsImage(e, hemisphere, quadrant)
      IN  /\ x_idx(quadrant, e[1], e[2], dom_os_idx[1], args.oversample)
               = FloorDiv(os[1], args.oversample)
          /\ y_idx(quadrant, e[1], e[2], dom_os_idx[2], args.oversample)
               = FloorDiv(os[2], args.oversample)
          /\ z_idx(hemisphere, e[3], dom_os_idx[3], args.oversample)
               = FloorDiv(os[3], args.oversample)

----------------------------------------------------------------------------
(* C9.  One mapping entry with oversampled offset (x, y, z), angular bin   *)
(* theta and first-quadrant direction (dx, dy) has exactly eight images:   *)
(* hemisphere 0 keeps z and theta, hemisphere 1 uses -1 - z and            *)
(* ntheta - 1 - theta; quadrant 0 is the identity, quadrant 1 is           *)
(* (-1 - y, x) with direction (-dy, dx), quadrant 2 is (-1 - x, -1 - y)    *)
(* with direction (-dx, -dy), quadrant 3 is (y, -1 - x) with direction     *)
(* (dy, -dx); every image whose cell is in the grid adds spv, px*spv,      *)
(* py*spv and pz*spv to the shared arrays, with spv the survival           *)
(* probability at the image's theta times the volume, and nothing else is  *)
(* added.                                                                  *)
C9_Position(quadrant, x, y) ==
  CASE quadrant = 0 -> <<x, y>>
    [] quadrant = 1 -> <<-1 - y, x>>
    [] quadrant = 2 -> <<-1 - x, -1 - y>>
    [] quadrant = 3 -> <<y, -1 - x>>

C9_Direction(quadrant, dx, dy) ==
  CASE quadrant = 0 -> <<dx, dy>>
    [] quadrant = 1 -> <<DNeg(dy), dx>>
    [] quadrant = 2 -> <<DNeg(dx), DNeg(dy)>>
    [] quadrant = 3 -> <<dy, DNeg(dx)>>

C9_Image(a, dos, r, t, e, hemisphere, quadrant) ==
  LET theta == IF hemisphere = 0 THEN t ELSE a.ntheta - 1 - t
      z == IF hemisphere = 0 THEN e[3] ELSE -1 - e[3]
      pos == C9_Position(quadrant, e[1], e[2])
      dx == DScale(px_unnormed(e[1], e[2]), a.prho[r][theta])
      dy == DScale(py_unnormed(e[1], e[2]), a.prho[r][theta])
      dir == C9_Direction(quadrant, dx, dy)
      w == RMul(a.survival_prob[r][theta], e[4])
  IN  [x |-> CDiv(pos[1] + dos[1], a.oversample),
       y |-> CDiv(pos[2] + dos[2], a.oversample),
       z |-> CDiv(z + dos[3], a.oversample),
       spv |-> w,
       px_spv |-> DScale(dir[1], w),
       py_spv |-> DScale(dir[2], w),
       pz_spv |-> RMul(a.pz[r][theta], w)]

C9_InGrid(a, im) ==
  /\ im.x \in 0 .. nx(a) - 1
  /\ im.y \in 0 .. ny(a) - 1
  /\ im.z \in 0 .. nz(a) - 1

C9_Images(a, dos, r, t, e) ==
  [n \in 1 .. 8 |-> C9_Image(a, dos, r, t, e, (n - 1) \div 4, (n - 1) % 4)]

RECURSIVE C9_Sum(_, _, _, _, _, _)
C9_Sum(a, images, k, n, zero, field) ==
  IF n = 0 THEN zero
  ELSE LET im == images[n]
           rest == C9_Sum(a, images, k, n - 1, zero, field)
       IN  IF C9_InGrid(a, im) /\ flat_cart_ix(a, im.x, im.y, im.z) + 1 = k
           THEN IF field = "spv" THEN RAdd(rest, im.spv)
                ELSE IF field = "pz_spv" THEN RAdd(rest, im.pz_spv)
                ELSE IF field = "px_spv" THEN DAdd(rest, im.px_spv)
                ELSE DAdd(rest, im.py_spv)
           ELSE rest

C9_EightImages ==
  [][ pc = "entry" =>
        LET images == C9_Images(args, dom_os_idx, r_idx, theta_idx, CurrentBin[ix + 1])
        IN  \A k \in 1 .. Len(binned_spv) :
              /\ binned_spv'[k] =
                   RAdd(binned_spv[k], C9_Sum(args, images, k, 8, Zero, "spv"))
              /\ binned_px_spv'[k] =
                   DAdd(binned_px_spv[k], C9_Sum(args, images, k, 8, DZero, "px_spv"))
              /\ binned_py_spv'[k] =
                   DAdd(binned_py_spv[k], C9_Sum(args, images, k, 8, DZero, "py_spv"))
              /\ binned_pz_spv'[k] =
                   RAdd(binned_pz_spv[k], C9_Sum(args, images, k, 8, Zero, "pz_spv")) ]_vars

(* An entry off the diagonal has been binned and its quadrant-3 images in  *)
(* both hemispheres fell inside the grid with a direction that is not zero.*)
C9_Witness ==
  /\ pc = "entry"
  /\ ix >= 1
  /\ CurrentBin[ix][1] # CurrentBin[ix][2]
  /\ LET images == C9_Images(args, dom_os_idx, r_idx, theta_idx, CurrentBin[ix])
     IN  /\ C9_InGrid(args, images[4]) /\ images[4].px_spv # DZero
         /\ C9_InGrid(args, images[8]) /\ images[8].py_spv # DZero
  /\ binned_px_spv # args.arrays.binned_px_spv

----------------------------------------------------------------------------
(* C10.  Whenever the configuration checks pass, every flattened polar-bin *)
(* index the accumulation loop reads the overlap mapping at is less than   *)
(* the number of mapping entries.                                          *)
C10_NoReadPastEnd ==
  pc = "bin" =>
    flat_pol_idx(args, r_idx, theta_idx) < num_first_octant_pol_bins(args)

----------------------------------------------------------------------------
(* C11.  Accumulation composes across invocations: for DOM lists A and B   *)
(* and the same table, mapping and grid, the call on A followed by the     *)
(* call on B against the same five output arrays leaves them as the one    *)
(* call on A followed by B does.  The scratch arrays of a call are fresh   *)
(* np.empty memory: any of the uninitialised values, or for the second     *)
(* call the memory the first call released, with what that call left in    *)
(* it; none of it reaches the results.                                     *)
(*                                                                         *)
(* C11_After(S, a, doms, i, j) is where the loop over DOMs i+1 .. j takes  *)
(* the states S.  C11_Fresh(S, a) is S at the start of another call: the   *)
(* five arrays as they are, the scratch arrays any uninitialised memory.   *)
(* With first the states the call on A = DOMs 1 .. i can end in, the call  *)
(* on B = DOMs i+1 .. n ends in C11_After(C11_Fresh(first) \cup first),    *)
(* the states of first themselves being the second call's scratch memory   *)
(* reused from the first.  C11_ComposesFrom walks i from 0 to n and takes  *)
(* that union apart: the part from first is the loop simply going on, so   *)
(* it is handed to the next i and compared at i = n; the part from         *)
(* C11_Fresh(first) is compared at once.                                   *)
C11_Garbage(a) ==
  { [k \in 1 .. nx(a) * ny(a) * nz(a) |-> g] : g \in Uninitialized }

C11_Fresh(S, a) ==
  { [st EXCEPT !.dom_binned_vol = g, !.dom_binned_spv = g] :
      st \in S, g \in C11_Garbage(a) }

C11_AtEntry(a) ==
  C11_Fresh({ Arrays(<<a.arrays.binned_spv, a.arrays.binned_px_spv,
                       a.arrays.binned_py_spv, a.arrays.binned_pz_spv,
                       a.arrays.binned_one_minus_sp>>, <<>>, <<>>) }, a)

C11_After(S, a, doms, i, j) ==
  { DomsDone(st, a, SubSeq(doms, i + 1, j), 1) : st \in S }

C11_SameOutputs(st) ==
  /\ st.binned_spv = binned_spv
  /\ st.binned_px_spv = binned_px_spv
  /\ st.binned_py_spv = binned_py_spv
  /\ st.binned_pz_spv = binned_pz_spv
  /\ st.binned_one_minus_sp = binned_one_minus_sp

RECURSIVE C11_ComposesFrom(_, _, _, _)
C11_ComposesFrom(first, a, doms, i) ==
  IF i = Len(doms)
  THEN \A st \in first : C11_SameOutputs(st)
  ELSE /\ \A st \in C11_After(C11_Fresh(first, a) \ first, a, doms, i, Len(doms)) :
            C11_SameOutputs(st)
       /\ C11_ComposesFrom(C11_After(first, a, doms, i, i + 1), a, doms, i + 1)

C11_Composes ==
  pc = "done" => C11_ComposesFrom(C11_AtEntry(args), args, args.dom_coords, 0)

(* Two DOMs, neither circumvented, have been binned; the first left volume *)
(* and survival sums in a cell the second one reaches too.                 *)
C11_Witness ==
  /\ pc = "done"
  /\ Len(args.dom_coords) = 2
  /\ ~Circumvented(args, args.dom_coords[1])
  /\ ~Circumvented(args, args.dom_coords[2])
  /\ \E k \in 1 .. Len(binned_spv) :
       /\ C2_LocalVolume(args, args.dom_coords[1])[k] # Zero
       /\ C2_LocalSpv(args, args.dom_coords[1])[k] # Zero
       /\ C2_LocalVolume(args, args.dom_coords[2])[k] # Zero
       /\ binned_spv[k] # args.arrays.binned_spv[k]

====
